---- MODULE Spec2Model ----
(***************************************************************************)
(* Model of django_elasticsearch_model_binder/mixins.py: the save/delete   *)
(* hooks of ESModelBinderMixin, its alias management (generate_index,      *)
(* bind_alias) and the alias-swap rebuild (rebuild_es_index,               *)
(* ESQuerySetMixin.reindex_into_es), run by concurrent callers against one *)
(* Elasticsearch cluster and one primary store.  Every request to the      *)
(* cluster and every statement against the primary store is one atomic     *)
(* step; the code between two requests is local to its caller.             *)
(***************************************************************************)
EXTENDS Naturals, Sequences, FiniteSets, TLC

VARIABLES
  es_indices,   \* the cluster: names of the indices that exist
  es_aliases,   \* the cluster: alias name -> set of indices holding it
  es_docs,      \* the cluster: index -> (document id -> body, or NoDoc)
  db,           \* the primary store: pk -> row (field map), or NoRow
  proc,         \* each caller: its position and the locals of its call
  calls         \* history: save() and delete() calls made so far

vars == <<es_indices, es_aliases, es_docs, db, proc, calls>>

-----------------------------------------------------------------------------
(* Bounds of the model *)

\* generate_index calls that may be made (the pool of uuid4 suffixes)
MaxIndices == 2
\* save()/delete() calls that may be made
MaxCalls == 2

\* primary keys of the records of the one model class
PK == {1, 2}
\* callers
Binders == {"b1", "b2"}
Rebuilders == {"r1", "r2"}
Writers == {"w1", "w2"}
Procs == Binders \cup Rebuilders \cup Writers

None == "None"
\* no row under a pk, no document under an id
NoRow == [row |-> FALSE]
NoDoc == [doc |-> FALSE]

-----------------------------------------------------------------------------
(* Names: the model class and its aliases *)

\* str.lower() on the names that occur
lower(s) ==
  CASE s = "Author" -> "author"
    [] s = "ModelBase" -> "modelbase"
    [] s = "Library" -> "library"
    [] s = "Book" -> "book"
    [] s = "Journal" -> "journal"
    [] s = "Press" -> "press"
    [] OTHER -> s

RECURSIVE join(_, _)
\* sep.join(parts)
join(sep, parts) ==
  IF Len(parts) = 0 THEN ""
  ELSE IF Len(parts) = 1 THEN parts[1]
  ELSE parts[1] \o sep \o join(sep, Tail(parts))

\* The model class: cls.__module__ split at '.', cls.__name__, and the name
\* of type(cls), which for a Django model is ModelBase.
Author == [module |-> <<"Library", "models">>, name |-> "Author",
           class_name |-> "ModelBase", has_index_name |-> FALSE,
           index_name |-> None]

\* Other model classes that use the mixin and set no index_name: one of the
\* same module, one of another module.
Book == [module |-> <<"Library", "models">>, name |-> "Book",
         class_name |-> "ModelBase", has_index_name |-> FALSE,
         index_name |-> None]
Journal == [module |-> <<"Press", "models">>, name |-> "Journal",
            class_name |-> "ModelBase", has_index_name |-> FALSE,
            index_name |-> None]
Classes == {Author, Book, Journal}

es_index_alias_read_postfix == "read"
es_index_alias_write_postfix == "write"

get_index_base_name(cls) ==
  IF cls.has_index_name THEN cls.index_name
  ELSE join("-", [i \in 1..Len(cls.module) |-> lower(cls.module[i])]
                 \o <<lower(cls.class_name)>>)

get_read_alias_name(cls) ==
  get_index_base_name(cls) \o "-" \o es_index_alias_read_postfix

get_write_alias_name(cls) ==
  get_index_base_name(cls) \o "-" \o es_index_alias_write_postfix

ReadAlias == get_read_alias_name(Author)
WriteAlias == get_write_alias_name(Author)
Aliases == {ReadAlias, WriteAlias}

\* Index names: base name + '-' + uuid4().hex; the n-th suffix drawn is n.
Index == 1..MaxIndices

-----------------------------------------------------------------------------
(* Records, field values and documents *)

\* the nominated fields of the model class (es_cached_fields of the subclass)
es_cached_fields == <<"name", "written">>

\* Field values, by the Python type convert_model_field_to_es_format tests
StrV(s) == [type |-> "str", s |-> s]
IntV(n) == [type |-> "int", n |-> n]
ModelV(pk) == [type |-> "Model", pk |-> pk]
DatetimeV(y, mo, d, h, mi, sec) ==
  [type |-> "datetime", year |-> y, month |-> mo, day |-> d,
   hour |-> h, minute |-> mi, second |-> sec]
DateV(y, mo, d) == [type |-> "date", year |-> y, month |-> mo, day |-> d]
\* an object whose __str__ raises
Unprintable == [type |-> "object"]
\* the attribute is not there
Missing == [type |-> "missing"]

\* Indexable values: Python int and str
EsInt(n) == [t |-> "int", n |-> n]
EsStr(s) == [t |-> "str", s |-> s]

Digit(d) ==
  CASE d = 0 -> "0" [] d = 1 -> "1" [] d = 2 -> "2" [] d = 3 -> "3"
    [] d = 4 -> "4" [] d = 5 -> "5" [] d = 6 -> "6" [] d = 7 -> "7"
    [] d = 8 -> "8" [] d = 9 -> "9"

RECURSIVE Str(_)
\* str(n) of a natural number
Str(n) == IF n < 10 THEN Digit(n) ELSE Str(n \div 10) \o Digit(n % 10)

\* a strftime field of two digits
Pad2(n) == IF n < 10 THEN "0" \o Str(n) ELSE Str(n)

\* value.strftime('%d-%M-%Y %H:%M:%S'): %M is the minute in both places; a
\* date has no time of day and formats it as zero
strftime(value) ==
  LET h == IF value.type = "datetime" THEN value.hour ELSE 0
      mi == IF value.type = "datetime" THEN value.minute ELSE 0
      sec == IF value.type = "datetime" THEN value.second ELSE 0
  IN Pad2(value.day) \o "-" \o Pad2(mi) \o "-" \o Str(value.year)
     \o " " \o Pad2(h) \o ":" \o Pad2(mi) \o ":" \o Pad2(sec)

\* str(value) of the catch-all branch
str(value) ==
  CASE value.type = "str" -> value.s
    [] value.type = "int" -> Str(value.n)

Returns(v) == [raised |-> FALSE, exc |-> None, value |-> v]
Raises(e) == [raised |-> TRUE, exc |-> e, value |-> [t |-> "none"]]

convert_model_field_to_es_format(value) ==
  IF value.type = "Model" THEN Returns(EsInt(value.pk))
  ELSE IF value.type \in {"datetime", "date"} THEN Returns(EsStr(strftime(value)))
  ELSE IF value.type = "object"
       THEN Raises("UnableToCastESNominatedFieldException")
       ELSE Returns(EsStr(str(value)))

\* What building the document of a row does for nominated field number i
convert_field(row, i) ==
  IF row[es_cached_fields[i]].type = "missing"
  THEN Raises("NominatedFieldDoesNotExistForESIndexingException")
  ELSE convert_model_field_to_es_format(row[es_cached_fields[i]])

\* build_document_from_model(instance): the nominated fields in order, each
\* converted; the first field that raises ends the build
build_document_from_model(row) ==
  LET n == Len(es_cached_fields)
      bad == {i \in 1..n : convert_field(row, i).raised}
  IN IF bad # {}
     THEN Raises(convert_field(row, CHOOSE i \in bad : \A j \in bad : i <= j).exc)
     ELSE Returns([doc |-> TRUE,
                   name |-> convert_field(row, 1).value,
                   written |-> convert_field(row, 2).value])

\* Rows of the model's table
Row1 == [name |-> StrV("ab"), written |-> DatetimeV(2019, 11, 3, 14, 5, 9)]
Row2 == [name |-> IntV(42), written |-> ModelV(2)]
Row3 == [name |-> StrV("cd"), written |-> DateV(2020, 2, 29)]
\* rows that save() and the rebuild are given
SaveRows == {Row1, Row2}
\* an instance that lacks a nominated field, and one holding a value whose
\* __str__ raises
RowNoName == [name |-> Missing, written |-> DateV(2020, 2, 29)]
RowNoStr == [name |-> StrV("ab"), written |-> Unprintable]
AnyRows == SaveRows \cup {RowNoName, RowNoStr}

-----------------------------------------------------------------------------
(* The Elasticsearch client, as the code uses it *)

\* indices.exists_alias(name=alias)
exists_alias(alias) == es_aliases[alias] # {}

\* indices.get_alias(name=alias).keys()
get_alias(alias) == es_aliases[alias]

\* a set as a list, in some order (iteration order of dict keys)
RECURSIVE SetToSeq(_)
SetToSeq(S) ==
  IF S = {} THEN <<>>
  ELSE LET x == CHOOSE y \in S : \A z \in S : y <= z
       IN <<x>> \o SetToSeq(S \ {x})

\* One action of an update_aliases body applied to the alias table: add and
\* remove change one alias, remove_index deletes the index and with it every
\* alias it holds.
apply_alias_action(al, action) ==
  CASE action.op = "remove" ->
         [al EXCEPT ![action.alias] = @ \ {action.index}]
    [] action.op = "add" ->
         [al EXCEPT ![action.alias] = @ \cup {action.index}]
    [] action.op = "remove_index" ->
         [a \in DOMAIN al |-> al[a] \ {action.index}]

\* the indices an update_aliases body deletes
removed_indices(actions) ==
  {actions[k].index : k \in {j \in DOMAIN actions : actions[j].op = "remove_index"}}

RECURSIVE update_aliases(_, _)
\* indices.update_aliases(body={'actions': actions}): the actions are applied
\* in order, as one atomic change of the cluster state.
update_aliases(al, actions) ==
  IF Len(actions) = 0 THEN al
  ELSE update_aliases(apply_alias_action(al, Head(actions)), Tail(actions))

\* The index a document request against `name` is routed to: the single index
\* holding the alias.  A request against an alias held by no index or by
\* several is rejected by the cluster.
Routable(name) == Cardinality(es_aliases[name]) = 1
Route(name) == CHOOSE i \in es_aliases[name] : TRUE

-----------------------------------------------------------------------------
(* Callers *)

\* A caller with no call in progress.  pc is the request the caller is about
\* to make; op the method called; line the statement of rebuild_es_index
\* being executed.  held is history: the indices holding the alias when the
\* caller's update_aliases request was applied.
Idle ==
  [pc |-> "idle", op |-> None, line |-> 0, exc |-> None,
   \* bind_alias
   index |-> 0, alias |-> None, old_indicy_names |-> {},
   \* rebuild_es_index and reindex_into_es
   new_indicy |-> 0, queryset |-> [given |-> FALSE, pks |-> {}],
   streaming |-> {}, last_pk |-> 0, documents |-> {},
   \* save and delete
   self |-> [pk |-> 0, row |-> NoRow], author_document_id |-> 0,
   \* history: the request that failed, the holders update_aliases found,
   \* the aliases when rebuild_es_index was called, the (index, id) pairs
   \* the call's bulk requests wrote
   failed |-> None, held |-> {}, before |-> [a \in Aliases |-> {}],
   wrote |-> {},
   \* history: the records that steps of save(), delete() and
   \* delete_from_es() calls touched since rebuild_es_index was called, and
   \* the (index, id) pairs under
   \* which the document this save() indexed is still the last one written
   touched |-> {}, last_write |-> {}]

\* history: a step of delete_from_es() on the records ks, seen by the
\* rebuilds that have been called
TouchAll(pr, ks) ==
  [q \in Procs |->
     IF pr[q].op = "rebuild_es_index"
     THEN [pr[q] EXCEPT !.touched = @ \cup ks] ELSE pr[q]]

\* history: a step of save() or delete() on record k
Touch(pr, k) == TouchAll(pr, {k})

\* history: caller p has written or deleted the documents under `pairs`
Overwrite(pr, p, pairs) ==
  [q \in Procs |->
     IF q = p THEN pr[q] ELSE [pr[q] EXCEPT !.last_write = @ \ pairs]]

\* uuid4 suffixes not yet drawn
FreshIndex == Cardinality(es_indices) + 1
Creating == {p \in Procs : proc[p].pc = "create"}
CanGenerate == Cardinality(es_indices) + Cardinality(Creating) < MaxIndices

Raise(p, e) ==
  [proc EXCEPT ![p].pc = "raised", ![p].exc = e, ![p].failed = proc[p].pc]

\* bind_alias(index, alias) entered: line 164
EnterBind(f, index, alias) ==
  [f EXCEPT !.pc = "exists_alias", !.index = index, !.alias = alias,
            !.old_indicy_names = {}]

\* bind_alias returns to its caller
ReturnFromBind(f) ==
  IF f.op = "rebuild_es_index" /\ f.line = 191
  THEN [f EXCEPT !.pc = "queryset", !.line = 193]
  ELSE [f EXCEPT !.pc = "returned"]

\* a rebuild that binds the read alias ahead of the population
alias_bound_first_read(cls) == get_read_alias_name(cls)

\* rebuild_es_index line 191: the alias bound to the new index before the
\* population
alias_bound_first(cls) == get_write_alias_name(cls)

\* rebuild_es_index line 198: the alias bound to the new index after it
alias_bound_last(cls) == get_read_alias_name(cls)

\* generate_index(): indices.create of base name + '-' + uuid4().hex
GenerateIndex(p) ==
  /\ proc[p].pc = "create"
  /\ LET index == FreshIndex IN
     /\ es_indices' = es_indices \cup {index}
     /\ proc' = [proc EXCEPT ![p] =
          IF @.op = "rebuild_es_index"
          THEN EnterBind([@ EXCEPT !.new_indicy = index, !.line = 191],
                         index, alias_bound_first(Author))
          ELSE [@ EXCEPT !.pc = "returned", !.new_indicy = index]]
  /\ UNCHANGED <<es_aliases, es_docs, db, calls>>

\* bind_alias line 165: indices.exists_alias
ExistsAlias(p) ==
  /\ proc[p].pc = "exists_alias"
  /\ proc' = [proc EXCEPT ![p].pc =
       IF exists_alias(proc[p].alias) THEN "get_alias" ELSE "update_aliases"]
  /\ UNCHANGED <<es_indices, es_aliases, es_docs, db, calls>>

\* bind_alias lines 166-170: indices.get_alias(...).keys(); the cluster
\* answers 404 for an alias no index holds
GetAlias(p) ==
  /\ proc[p].pc = "get_alias"
  /\ proc' = IF exists_alias(proc[p].alias)
             THEN [proc EXCEPT ![p].pc = "update_aliases",
                               ![p].old_indicy_names = get_alias(proc[p].alias)]
             ELSE Raise(p, "NotFoundError")
  /\ UNCHANGED <<es_indices, es_aliases, es_docs, db, calls>>

\* alias_updates without the removals of lines 172-175
alias_updates_add_only(old_indicy_names, index, alias) ==
  <<[op |-> "add", index |-> index, alias |-> alias]>>

\* alias_updates with the addition ahead of the removals
alias_updates_add_first(old_indicy_names, index, alias) ==
  <<[op |-> "add", index |-> index, alias |-> alias]>>
  \o [k \in 1..Cardinality(old_indicy_names) |->
       [op |-> "remove", index |-> SetToSeq(old_indicy_names)[k], alias |-> alias]]

\* alias_updates that deletes the indices holding the alias
alias_updates_remove_index(old_indicy_names, index, alias) ==
  [k \in 1..Cardinality(old_indicy_names) |->
     [op |-> "remove_index", index |-> SetToSeq(old_indicy_names)[k]]]
  \o <<[op |-> "add", index |-> index, alias |-> alias]>>

\* bind_alias lines 172-176: the body of the update_aliases request
alias_updates(old_indicy_names, index, alias) ==
  [k \in 1..Cardinality(old_indicy_names) |->
     [op |-> "remove", index |-> SetToSeq(old_indicy_names)[k], alias |-> alias]]
  \o <<[op |-> "add", index |-> index, alias |-> alias]>>

\* bind_alias line 178: indices.update_aliases
UpdateAliases(p) ==
  /\ proc[p].pc = "update_aliases"
  /\ LET actions == alias_updates(proc[p].old_indicy_names, proc[p].index,
                                  proc[p].alias)
     IN /\ es_aliases' = update_aliases(es_aliases, actions)
        /\ es_indices' = es_indices \ removed_indices(actions)
  /\ proc' = [proc EXCEPT ![p] =
       ReturnFromBind([@ EXCEPT !.held = es_aliases[proc[p].alias]])]
  /\ UNCHANGED <<es_docs, db, calls>>

\* A request of generate_index or bind_alias fails (connection, cluster):
\* nothing is applied and the client's exception leaves the call.
AliasRequestFails(p) ==
  /\ proc[p].pc \in {"create", "exists_alias", "get_alias", "update_aliases"}
  /\ proc' = Raise(p, "TransportError")
  /\ UNCHANGED <<es_indices, es_aliases, es_docs, db, calls>>

\* The call has returned or raised; the caller is free for its next call.
Finish(p) ==
  /\ proc[p].pc \in {"returned", "raised"}
  /\ proc' = [proc EXCEPT ![p] = Idle]
  /\ UNCHANGED <<es_indices, es_aliases, es_docs, db, calls>>

\* A caller calls generate_index()
CallGenerateIndex(p) ==
  /\ proc[p].pc = "idle"
  /\ CanGenerate
  /\ proc' = [proc EXCEPT ![p] = [Idle EXCEPT !.pc = "create",
                                              !.op = "generate_index"]]
  /\ UNCHANGED <<es_indices, es_aliases, es_docs, db, calls>>

\* A caller calls bind_alias(index, alias) on an index that exists
CallBindAlias(p) ==
  /\ proc[p].pc = "idle"
  /\ \E index \in es_indices, alias \in Aliases :
       proc' = [proc EXCEPT ![p] =
                  EnterBind([Idle EXCEPT !.op = "bind_alias"], index, alias)]
  /\ UNCHANGED <<es_indices, es_aliases, es_docs, db, calls>>

-----------------------------------------------------------------------------
(* rebuild_es_index and reindex_into_es *)

\* records per chunk of queryset_iterator
ChunkSize == 1

\* the querysets rebuild_es_index is given: none (the whole table), or the
\* rows whose pk is in a set
WholeTable == [given |-> FALSE, pks |-> {}]
Querysets == {WholeTable, [given |-> TRUE, pks |-> {1}]}

\* the pks a queryset over `pks` evaluates to
Evaluate(pks) == {k \in pks : db[k] # NoRow}

RECURSIVE FirstN(_, _)
\* the n smallest elements of S
FirstN(S, n) ==
  IF n = 0 \/ S = {} THEN {}
  ELSE LET x == CHOOSE y \in S : \A z \in S : y <= z
       IN {x} \cup FirstN(S \ {x}, n - 1)

Max(S) == CHOOSE y \in S : \A z \in S : z <= y

\* A caller calls rebuild_es_index(queryset): line 189 comes next
CallRebuild(p, querysets) ==
  /\ proc[p].pc = "idle"
  /\ CanGenerate
  /\ \E queryset \in querysets :
       proc' = [proc EXCEPT ![p] =
                  [Idle EXCEPT !.pc = "create", !.op = "rebuild_es_index",
                               !.line = 189, !.queryset = queryset,
                               !.before = es_aliases]]
  /\ UNCHANGED <<es_indices, es_aliases, es_docs, db, calls>>

\* line 193 without "or cls.objects.all()"
queryset_only(queryset) == queryset.pks

\* line 193: queryset or cls.objects.all(); a queryset that is given is
\* evaluated for its truth value, and an empty one is false
queryset_or_all(queryset) ==
  IF queryset.given /\ Evaluate(queryset.pks) # {} THEN queryset.pks ELSE PK

EvalQueryset(p) ==
  /\ proc[p].pc = "queryset"
  /\ proc' = [proc EXCEPT ![p].pc = "chunk", ![p].line = 195,
                          ![p].streaming = queryset_or_all(proc[p].queryset),
                          ![p].last_pk = 0]
  /\ UNCHANGED <<es_indices, es_aliases, es_docs, db, calls>>

\* the next chunk of queryset_iterator: the rows of the queryset past the
\* last one streamed, in pk order
next_chunk(f) ==
  FirstN({k \in Evaluate(f.streaming) : k > f.last_pk}, ChunkSize)

\* documents built from the rows as queryset.values() projects them, where a
\* related record is its raw key, which str() then converts
build_documents_from_values(chunk) ==
  LET values_row(row) ==
        [f \in DOMAIN row |->
           IF row[f].type = "Model" THEN IntV(row[f].pk) ELSE row[f]]
  IN
  IF \E k \in chunk : build_document_from_model(values_row(db[k])).raised
  THEN Raises(build_document_from_model(values_row(
         db[CHOOSE k \in chunk : build_document_from_model(values_row(db[k])).raised])).exc)
  ELSE Returns([k \in chunk |->
         [id |-> k, body |-> build_document_from_model(values_row(db[k])).value]])

\* build_documents_from_queryset(chunk): a dict of one document per row,
\* keyed by the row's pk, each document carrying its id and the body that
\* build_document_from_model builds; raises what building a document raises
build_documents_from_queryset(chunk) ==
  IF \E k \in chunk : build_document_from_model(db[k]).raised
  THEN Raises(build_document_from_model(
         db[CHOOSE k \in chunk : build_document_from_model(db[k]).raised]).exc)
  ELSE Returns([k \in chunk |->
         [id |-> k, body |-> build_document_from_model(db[k]).value]])

\* line 213: .values() hands bulk the documents without the keys of the dict
dict_values(d) == {d[k] : k \in DOMAIN d}

\* an except clause that swallows the error and lets the loop go on
on_bulk_error_swallowed(f) ==
  [f EXCEPT !.pc = "chunk",
            !.last_pk = IF f.documents = {} THEN @ ELSE Max({d.id : d \in f.documents}),
            !.documents = {}]

\* reindex_into_es lines 216-217: the except clause
on_bulk_error(f) ==
  [f EXCEPT !.pc = "raised", !.exc = "UnableToBulkIndexModelsToElasticSearch"]

\* lines 195-196 and 213: the loop takes its next chunk and reindex_into_es
\* builds the chunk's documents; when no chunk is left, line 198 is next
FetchChunk(p) ==
  /\ proc[p].pc = "chunk"
  /\ LET chunk == next_chunk(proc[p])
         built == build_documents_from_queryset(chunk)
     IN proc' = [proc EXCEPT ![p] =
          IF chunk = {}
          THEN EnterBind([@ EXCEPT !.line = 198], @.new_indicy,
                         alias_bound_last(Author))
          ELSE IF built.raised
               THEN on_bulk_error([@ EXCEPT !.failed = "build"])
               ELSE [@ EXCEPT !.pc = "bulk",
                               !.documents = dict_values(built.value)]]
  /\ UNCHANGED <<es_indices, es_aliases, es_docs, db, calls>>

\* line 214: the index= argument of bulk
bulk_index(cls) == get_write_alias_name(cls)

\* the documents `documents` indexed into index i
index_documents(docs, i, documents) ==
  [docs EXCEPT ![i] = [k \in PK |->
     IF \E d \in documents : d.id = k
     THEN (CHOOSE d \in documents : d.id = k).body
     ELSE @[k]]]

Ids(documents) == {d.id : d \in documents}

\* the bulk index request with the documents of a queryset that was given
\* to reindex_into_es directly returns to the caller; the one of a chunk of
\* rebuild_es_index returns to the loop of line 195
after_bulk(f) ==
  IF f.op = "reindex_into_es" THEN "returned" ELSE "chunk"

\* lines 212-215: helpers.bulk indexes the documents through the write alias;
\* with no document it sends no request
Bulk(p) ==
  /\ proc[p].pc = "bulk"
  /\ LET documents == proc[p].documents IN
     IF documents = {}
     THEN /\ es_docs' = es_docs
          /\ proc' = [proc EXCEPT ![p].pc = after_bulk(proc[p])]
     ELSE /\ Routable(bulk_index(Author))
          /\ LET i == Route(bulk_index(Author))
             IN /\ es_docs' = index_documents(es_docs, i, documents)
                /\ proc' = Overwrite([proc EXCEPT
                     ![p].pc = after_bulk(proc[p]), ![p].documents = {},
                     ![p].last_pk = Max(Ids(documents)),
                     ![p].wrote = @ \cup {<<i, k>> : k \in Ids(documents)}],
                     p, {<<i, k>> : k \in Ids(documents)})
  /\ UNCHANGED <<es_indices, es_aliases, db, calls>>

\* The bulk request fails: the alias routes to no single index, the cluster
\* rejects some document, or the connection fails.  The documents the cluster
\* accepted before the failure stay indexed.
BulkFails(p) ==
  /\ proc[p].pc = "bulk"
  /\ \E applied \in SUBSET proc[p].documents :
       /\ applied # proc[p].documents
       /\ applied # {} => Routable(bulk_index(Author))
       /\ es_docs' = IF applied = {} THEN es_docs
                     ELSE index_documents(es_docs, Route(bulk_index(Author)), applied)
       /\ LET pairs == IF applied = {} THEN {}
                       ELSE {<<Route(bulk_index(Author)), k>> : k \in Ids(applied)}
          IN proc' = Overwrite([proc EXCEPT ![p] = on_bulk_error(
               [@ EXCEPT !.failed = "bulk", !.wrote = @ \cup pairs])], p, pairs)
  /\ UNCHANGED <<es_indices, es_aliases, db, calls>>

\* the querysets reindex_into_es is called on
ReindexQuerysets == {[given |-> TRUE, pks |-> pks] : pks \in SUBSET PK}

\* A caller calls reindex_into_es() on a queryset: line 213 comes next
CallReindex(p) ==
  /\ proc[p].pc = "idle"
  /\ \E queryset \in ReindexQuerysets :
       proc' = [proc EXCEPT ![p] =
                  [Idle EXCEPT !.pc = "build", !.op = "reindex_into_es",
                               !.queryset = queryset,
                               !.streaming = queryset.pks]]
  /\ UNCHANGED <<es_indices, es_aliases, es_docs, db, calls>>

\* line 213: the documents of the queryset's rows are built
BuildDocuments(p) ==
  /\ proc[p].pc = "build"
  /\ LET built == build_documents_from_queryset(Evaluate(proc[p].streaming))
     IN proc' = [proc EXCEPT ![p] =
          IF built.raised
          THEN on_bulk_error([@ EXCEPT !.failed = "build"])
          ELSE [@ EXCEPT !.pc = "bulk", !.documents = dict_values(built.value)]]
  /\ UNCHANGED <<es_indices, es_aliases, es_docs, db, calls>>

\* A caller calls delete_from_es() on a queryset: line 223 comes next
CallDeleteFromEs(p) ==
  /\ proc[p].pc = "idle"
  /\ \E queryset \in ReindexQuerysets :
       proc' = [proc EXCEPT ![p] =
                  [Idle EXCEPT !.pc = "values_list", !.op = "delete_from_es",
                               !.queryset = queryset,
                               !.streaming = queryset.pks]]
  /\ UNCHANGED <<es_indices, es_aliases, es_docs, db, calls>>

\* lines 223-226: one delete action per pk of the queryset's rows
model_documents_to_remove(pks) ==
  {[id |-> k, op_type |-> "delete"] : k \in pks}

ValuesList(p) ==
  /\ proc[p].pc = "values_list"
  /\ proc' = [proc EXCEPT
       ![p].pc = "bulk_delete",
       ![p].documents = model_documents_to_remove(Evaluate(proc[p].streaming))]
  /\ UNCHANGED <<es_indices, es_aliases, es_docs, db, calls>>

\* line 229: the index= argument of bulk
bulk_delete_index(cls) == get_write_alias_name(cls)

\* the documents under `ids` deleted from index i
delete_documents(docs, i, ids) ==
  [docs EXCEPT ![i] = [k \in PK |-> IF k \in ids THEN NoDoc ELSE @[k]]]

\* lines 227-230: helpers.bulk deletes the documents through the write
\* alias; with no action it sends no request.  The cluster deletes the
\* documents it holds and answers 404 for the others, which helpers.bulk
\* raises as BulkIndexError; nothing catches it.  The rows stay in the table.
BulkDelete(p) ==
  /\ proc[p].pc = "bulk_delete"
  /\ LET ids == Ids(proc[p].documents) IN
     IF ids = {}
     THEN /\ es_docs' = es_docs
          /\ proc' = [proc EXCEPT ![p].pc = "returned"]
     ELSE /\ Routable(bulk_delete_index(Author))
          /\ LET i == Route(bulk_delete_index(Author))
                 held_ids == {k \in ids : es_docs[i][k] # NoDoc}
                 pairs == {<<i, k>> : k \in held_ids}
             IN /\ es_docs' = delete_documents(es_docs, i, held_ids)
                /\ proc' = TouchAll(Overwrite(
                     [proc EXCEPT ![p] =
                        IF held_ids = ids
                        THEN [@ EXCEPT !.pc = "returned", !.documents = {}]
                        ELSE [@ EXCEPT !.pc = "raised", !.exc = "BulkIndexError",
                                       !.failed = "bulk_delete"]],
                     p, pairs), ids)
  /\ UNCHANGED <<es_indices, es_aliases, db, calls>>

\* The bulk delete request fails: the alias routes to no single index, or
\* the connection fails.  Nothing is deleted and the client's exception
\* leaves the call.
BulkDeleteFails(p) ==
  /\ proc[p].pc = "bulk_delete"
  /\ proc[p].documents # {}
  /\ proc' = Raise(p, "TransportError")
  /\ UNCHANGED <<es_indices, es_aliases, es_docs, db, calls>>

-----------------------------------------------------------------------------
(* save and delete *)

\* A caller calls save() on an instance: line 74 comes next
CallSave(p, rows) ==
  /\ proc[p].pc = "idle"
  /\ calls < MaxCalls
  /\ \E pk \in PK, row \in rows :
       proc' = [proc EXCEPT ![p] =
                  [Idle EXCEPT !.pc = "db_save", !.op = "save",
                               !.self = [pk |-> pk, row |-> row]]]
  /\ calls' = calls + 1
  /\ UNCHANGED <<es_indices, es_aliases, es_docs, db>>

\* line 74: super().save() writes the row
DbSave(p) ==
  /\ proc[p].pc = "db_save"
  /\ db' = [db EXCEPT ![proc[p].self.pk] = proc[p].self.row]
  /\ proc' = Touch([proc EXCEPT ![p].pc = "index"], proc[p].self.pk)
  /\ UNCHANGED <<es_indices, es_aliases, es_docs, calls>>

\* index= naming the read alias
save_index_read_alias(cls) == get_read_alias_name(cls)

\* line 79: the index= argument of index
save_index(cls) == get_write_alias_name(cls)

\* a body= built from the row the primary store holds when index is called
save_body_from_table(self) == build_document_from_model(db[self.pk])

\* line 80: the body= argument of index
save_body(self) == build_document_from_model(self.row)

\* lines 82-87: the except clause
on_index_error(f) ==
  [f EXCEPT !.pc = "raised", !.exc = "UnableToSaveModelToElasticSearch"]

\* an except clause that takes the row back out of the primary store
db_rolled_back(d, f) == [d EXCEPT ![f.self.pk] = NoRow]

\* the primary store once the except clause of save has run
db_after_index_error(d, f) == d

\* lines 76-81: the document is built and indexed under the pk through the
\* write alias; an exception of the build, or the cluster's rejection of an
\* alias that routes to no single index, reaches the except clause
EsIndex(p) ==
  /\ proc[p].pc = "index"
  /\ LET built == save_body(proc[p].self) IN
     IF built.raised \/ ~Routable(save_index(Author))
     THEN /\ proc' = Touch([proc EXCEPT ![p] = on_index_error(
                 [@ EXCEPT !.failed = IF built.raised THEN "build" ELSE "index"])],
               proc[p].self.pk)
          /\ db' = db_after_index_error(db, proc[p])
          /\ es_docs' = es_docs
     ELSE /\ es_docs' = [es_docs EXCEPT
                 ![Route(save_index(Author))][proc[p].self.pk] = built.value]
          /\ LET pairs == {<<Route(save_index(Author)), proc[p].self.pk>>}
             IN proc' = Touch(Overwrite([proc EXCEPT ![p].pc = "returned",
                                                     ![p].last_write = pairs],
                                        p, pairs), proc[p].self.pk)
          /\ db' = db
  /\ UNCHANGED <<es_indices, es_aliases, calls>>

\* The index request fails (connection, cluster): nothing is indexed
EsIndexFails(p) ==
  /\ proc[p].pc = "index"
  /\ ~save_body(proc[p].self).raised
  /\ proc' = Touch([proc EXCEPT ![p] = on_index_error([@ EXCEPT !.failed = "index"])],
                   proc[p].self.pk)
  /\ db' = db_after_index_error(db, proc[p])
  /\ UNCHANGED <<es_indices, es_aliases, es_docs, calls>>

\* A caller calls delete() on an instance loaded from the table; line 96
\* keeps its pk
CallDelete(p) ==
  /\ proc[p].pc = "idle"
  /\ calls < MaxCalls
  /\ \E pk \in PK :
       /\ db[pk] # NoRow
       /\ proc' = [proc EXCEPT ![p] =
                  [Idle EXCEPT !.pc = "db_delete", !.op = "delete",
                               !.self = [pk |-> pk, row |-> db[pk]],
                               !.author_document_id = pk]]
  /\ calls' = calls + 1
  /\ UNCHANGED <<es_indices, es_aliases, es_docs, db>>

\* line 98: super().delete() deletes the row and clears the instance's pk
DbDelete(p) ==
  /\ proc[p].pc = "db_delete"
  /\ db' = [db EXCEPT ![proc[p].self.pk] = NoRow]
  /\ proc' = Touch([proc EXCEPT ![p].pc = "es_delete", ![p].self.pk = 0],
                   proc[p].self.pk)
  /\ UNCHANGED <<es_indices, es_aliases, es_docs, calls>>

\* index= naming the read alias
delete_index_read_alias(cls) == get_read_alias_name(cls)

\* line 102: the index= and id= arguments of delete
delete_index(cls) == get_write_alias_name(cls)
delete_id(f) == f.author_document_id

\* lines 104-110: the except clause
on_delete_error(f) ==
  [f EXCEPT !.pc = "raised", !.exc = "UnableToDeleteModelFromElasticSearch"]

\* an except clause that puts the deleted row back
db_restored(d, f) == [d EXCEPT ![f.author_document_id] = f.self.row]

\* the primary store once the except clause of delete has run
db_after_delete_error(d, f) == d

\* the cluster has a document under the id behind the name
HasDocument(name, id) ==
  Routable(name) /\ id \in PK /\ es_docs[Route(name)][id] # NoDoc

\* lines 100-103: the document under the kept pk is deleted through the
\* write alias; the cluster answers 404 when there is no such document
EsDelete(p) ==
  /\ proc[p].pc = "es_delete"
  /\ IF HasDocument(delete_index(Author), delete_id(proc[p]))
     THEN /\ es_docs' = [es_docs EXCEPT
                 ![Route(delete_index(Author))][delete_id(proc[p])] = NoDoc]
          /\ proc' = Touch(Overwrite([proc EXCEPT ![p].pc = "returned"], p,
                 {<<Route(delete_index(Author)), delete_id(proc[p])>>}),
               proc[p].author_document_id)
          /\ db' = db
     ELSE /\ es_docs' = es_docs
          /\ proc' = Touch([proc EXCEPT ![p] =
                 on_delete_error([@ EXCEPT !.failed = "delete"])],
               proc[p].author_document_id)
          /\ db' = db_after_delete_error(db, proc[p])
  /\ UNCHANGED <<es_indices, es_aliases, calls>>

\* The delete request fails (connection, cluster): nothing is deleted
EsDeleteFails(p) ==
  /\ proc[p].pc = "es_delete"
  /\ proc' = Touch([proc EXCEPT ![p] =
         on_delete_error([@ EXCEPT !.failed = "delete"])],
       proc[p].author_document_id)
  /\ db' = db_after_delete_error(db, proc[p])
  /\ UNCHANGED <<es_indices, es_aliases, es_docs, calls>>

-----------------------------------------------------------------------------
(* Specifications *)

Init ==
  /\ es_indices = {}
  /\ es_aliases = [a \in Aliases |-> {}]
  /\ es_docs = [i \in Index |-> [pk \in PK |-> NoDoc]]
  /\ db = [pk \in PK |-> NoRow]
  /\ proc = [p \in Procs |-> Idle]
  /\ calls = 0

\* The alias manager alone: concurrent generate_index and bind_alias calls.
NextAlias ==
  \E p \in Binders :
    \/ CallGenerateIndex(p)
    \/ CallBindAlias(p)
    \/ GenerateIndex(p)
    \/ ExistsAlias(p)
    \/ GetAlias(p)
    \/ UpdateAliases(p)
    \/ AliasRequestFails(p)
    \/ Finish(p)

SpecAlias == Init /\ [][NextAlias]_vars

\* The steps of a rebuild_es_index call
RebuildStep(p) ==
  \/ GenerateIndex(p)
  \/ ExistsAlias(p)
  \/ GetAlias(p)
  \/ UpdateAliases(p)
  \/ AliasRequestFails(p)
  \/ EvalQueryset(p)
  \/ FetchChunk(p)
  \/ Bulk(p)
  \/ BulkFails(p)

\* Overlapping rebuilds of a table that holds rows.
InitRebuild ==
  /\ Init!1 /\ Init!2 /\ Init!3 /\ Init!5 /\ Init!6
  /\ db \in {[pk \in PK |-> IF pk = 1 THEN Row1 ELSE Row2],
             [pk \in PK |-> IF pk = 1 THEN Row2 ELSE NoRow]}

NextRebuild ==
  \E p \in Rebuilders :
    \/ CallRebuild(p, Querysets)
    \/ RebuildStep(p)
    \/ Finish(p)

SpecRebuild == InitRebuild /\ [][NextRebuild]_vars

\* One caller of rebuild_es_index at a time, with concurrent save() and
\* delete() calls.
Rebuilder == "r1"
Writer == "w1"

Next ==
  \/ CallRebuild(Rebuilder, {WholeTable})
  \/ RebuildStep(Rebuilder)
  \/ Finish(Rebuilder)
  \/ CallSave(Writer, SaveRows)
  \/ DbSave(Writer)
  \/ EsIndex(Writer)
  \/ EsIndexFails(Writer)
  \/ CallDelete(Writer)
  \/ DbDelete(Writer)
  \/ EsDelete(Writer)
  \/ EsDeleteFails(Writer)
  \/ Finish(Writer)

Spec == Init /\ [][Next]_vars

\* Concurrent save() calls, on instances of any kind, against the aliases as
\* a completed rebuild_es_index leaves them.
InitSave ==
  /\ es_indices = {1}
  /\ es_aliases = [a \in Aliases |-> {1}]
  /\ Init!3
  /\ Init!4
  /\ Init!5
  /\ Init!6

NextSave ==
  \E p \in Writers :
    \/ CallSave(p, AnyRows)
    \/ DbSave(p)
    \/ EsIndex(p)
    \/ EsIndexFails(p)
    \/ Finish(p)

SpecSave == InitSave /\ [][NextSave]_vars

\* One full-table rebuild_es_index of a table that holds rows, with save(),
\* delete() and delete_from_es() calls of concurrent callers, one call each,
\* from the state
\* an earlier rebuild left: both aliases on its index, which holds the
\* documents of the rows.
InitSync ==
  /\ es_indices = {1}
  /\ es_aliases = [a \in Aliases |-> {1}]
  /\ db \in {[pk \in PK |-> IF pk = 1 THEN Row1 ELSE Row2],
             [pk \in PK |-> IF pk = 1 THEN Row2 ELSE NoRow]}
  /\ es_docs = [i \in Index |-> [pk \in PK |->
       IF i = 1 /\ db[pk] # NoRow
       THEN build_document_from_model(db[pk]).value ELSE NoDoc]]
  /\ Init!5
  /\ Init!6

NextSync ==
  \/ CallRebuild(Rebuilder, {WholeTable})
  \/ RebuildStep(Rebuilder)
  \/ \E w \in Writers :
       \/ CallSave(w, SaveRows)
       \/ DbSave(w)
       \/ EsIndex(w)
       \/ EsIndexFails(w)
       \/ CallDelete(w)
       \/ DbDelete(w)
       \/ EsDelete(w)
       \/ EsDeleteFails(w)
       \/ CallDeleteFromEs(w)
       \/ ValuesList(w)
       \/ BulkDelete(w)
       \/ BulkDeleteFails(w)

SpecSync == InitSync /\ [][NextSync]_vars

\* One caller of rebuild_es_index, given any queryset over the table or none.
NextQueryset ==
  \/ CallRebuild(Rebuilder, {WholeTable} \cup ReindexQuerysets)
  \/ RebuildStep(Rebuilder)
  \/ Finish(Rebuilder)

SpecQueryset == InitRebuild /\ [][NextQueryset]_vars

\* Callers of reindex_into_es and delete_from_es on querysets of a table,
\* against the aliases as
\* a rebuild_es_index that raised while populating leaves them: the write
\* alias on the new index, the read alias on the old one.
Tables ==
  {[pk \in PK |-> NoRow],
   [pk \in PK |-> IF pk = 1 THEN Row1 ELSE NoRow],
   [pk \in PK |-> IF pk = 1 THEN Row1 ELSE Row2],
   [pk \in PK |-> IF pk = 1 THEN Row3 ELSE Row1],
   [pk \in PK |-> IF pk = 1 THEN Row2 ELSE RowNoStr]}

InitReindex ==
  /\ es_indices = {1, 2}
  /\ es_aliases = [a \in Aliases |-> IF a = ReadAlias THEN {1} ELSE {2}]
  /\ Init!3
  /\ db \in Tables
  /\ Init!5
  /\ Init!6

NextReindex ==
  \E p \in Rebuilders :
    \/ CallReindex(p)
    \/ BuildDocuments(p)
    \/ Bulk(p)
    \/ BulkFails(p)
    \/ CallDeleteFromEs(p)
    \/ ValuesList(p)
    \/ BulkDelete(p)
    \/ BulkDeleteFails(p)
    \/ Finish(p)

SpecReindex == InitReindex /\ [][NextReindex]_vars

-----------------------------------------------------------------------------
(* Alias manager: bind_alias *)

\* a bind_alias call of p has returned
BindReturned(p) == proc[p].op = "bind_alias" /\ proc[p].pc = "returned"

\* C1: a bind_alias(index, alias) call whose look-up is still current when
\* its update_aliases request is applied (no other alias operation came in
\* between) leaves the alias on exactly one index, the index bound, whether
\* the alias was held by no index, by one or by several.
C1_BindAliasResolvesToIndex ==
  [][\A p \in Procs :
       (UpdateAliases(p) /\ proc[p].old_indicy_names = es_aliases[proc[p].alias])
       => es_aliases'[proc[p].alias] = {proc[p].index}]_vars

\* C1 witness: a bind_alias on an alias that several indices held, seen by
\* its look-up, has returned and the alias is on the bound index alone.
C1_Witness ==
  \E p \in Procs :
    /\ BindReturned(p)
    /\ Cardinality(proc[p].held) >= 2
    /\ proc[p].held = proc[p].old_indicy_names
    /\ es_aliases[proc[p].alias] = {proc[p].index}

\* C2: once two bind_alias calls for the same alias and different indices
\* have both returned, the alias resolves to exactly one index.
C2_ConcurrentBindsLeaveOneIndex ==
  \A p, q \in Procs :
    (/\ p # q
     /\ BindReturned(p) /\ BindReturned(q)
     /\ proc[p].alias = proc[q].alias
     /\ proc[p].index # proc[q].index)
    => Cardinality(es_aliases[proc[p].alias]) = 1

\* C3: an alias that resolves to at least one index resolves to at least one
\* index after every step: no step of a bind_alias call leaves it on none.
C3_AliasNeverLosesAllIndices ==
  [][\A a \in Aliases : es_aliases[a] # {} => es_aliases'[a] # {}]_vars

\* C3 witness: a bind_alias has moved an alias off the index that held it
\* onto another index.
C3_Witness ==
  \E p \in Procs :
    /\ BindReturned(p)
    /\ proc[p].held # {}
    /\ proc[p].index \notin proc[p].held
    /\ es_aliases[proc[p].alias] = {proc[p].index}

-----------------------------------------------------------------------------
(* Rebuild: visibility under the read alias *)

Rebuilding(p) == proc[p].op = "rebuild_es_index"

\* C4: while a rebuild_es_index call has not run its final bind_alias of the
\* read alias, no document its population wrote is in an index the read
\* alias resolves to.
C4_PopulationInvisibleToReaders ==
  \A p \in Procs :
    (Rebuilding(p) /\ proc[p].pc # "returned")
    => \A w \in proc[p].wrote :
         w[1] \notin es_aliases[ReadAlias] \/ es_docs[w[1]][w[2]] = NoDoc

\* the pks the bulk requests of p's rebuild indexed
StreamedBy(p) == {w[2] : w \in proc[p].wrote}

\* C5: an index the read alias resolves to holds a document for every record
\* streamed by the rebuild that created it.
C5_ReadAliasIndexFullyPopulated ==
  \A p \in Procs :
    (Rebuilding(p) /\ proc[p].new_indicy \in es_aliases[ReadAlias])
    => \A k \in StreamedBy(p) : es_docs[proc[p].new_indicy][k] # NoDoc

-----------------------------------------------------------------------------
(* save and delete: the two stores *)

\* the projection of a row's nominated fields through the conversion rules
Projection(row) ==
  [doc |-> TRUE,
   name |-> convert_model_field_to_es_format(row.name).value,
   written |-> convert_model_field_to_es_format(row.written).value]

\* C6: when save() returns without error, the write alias resolves to an
\* index that holds, under the record's pk, the projection of the record's
\* nominated fields.
C6_SaveIndexesProjection ==
  [][\A p \in Procs :
       (proc[p].op = "save" /\ proc[p].pc = "index" /\ proc'[p].pc = "returned")
       => /\ es_aliases'[WriteAlias] # {}
          /\ \A i \in es_aliases'[WriteAlias] :
               es_docs'[i][proc[p].self.pk] = Projection(proc[p].self.row)]_vars

\* C6 witness: a save() of a row with a date-time field has returned and its
\* formatted document is behind the write alias.
C6_Witness ==
  \E p \in Procs :
    /\ proc[p].op = "save" /\ proc[p].pc = "returned"
    /\ proc[p].self.row = Row1
    /\ Routable(WriteAlias)
    /\ es_docs[Route(WriteAlias)][proc[p].self.pk] = Projection(Row1)
    /\ es_docs[Route(WriteAlias)][proc[p].self.pk].written = EsStr("03-05-2019 14:05:09")

\* C7: a save() whose index request failed has raised
\* UnableToSaveModelToElasticSearch and its row is in the primary store
\* with the values saved.
C7_FailedIndexKeepsRow ==
  \A p \in Procs :
    (proc[p].op = "save" /\ proc[p].failed = "index")
    => /\ proc[p].pc = "raised"
       /\ proc[p].exc = "UnableToSaveModelToElasticSearch"
       /\ db[proc[p].self.pk] = proc[p].self.row

\* C7 witness: the index request of a save() failed with the write alias
\* bound, and the row is stored.
C7_Witness ==
  \E p \in Procs :
    /\ proc[p].op = "save" /\ proc[p].failed = "index" /\ proc[p].pc = "raised"
    /\ Routable(WriteAlias)
    /\ db[proc[p].self.pk] = proc[p].self.row

\* C8: a delete() call changes the index only after its primary-store delete,
\* by removing the document under the pk it kept; when it returns without
\* error the index behind the write alias holds no document under that pk.
C8_DeleteRemovesDocumentLast ==
  [][\A p \in Procs :
       (proc[p].op = "delete" /\ proc'[p] # proc[p])
       => /\ es_docs' # es_docs
               => /\ proc[p].pc = "es_delete"
                  /\ db[proc[p].author_document_id] = NoRow
          /\ proc'[p].pc = "returned"
               => /\ es_aliases'[WriteAlias] # {}
                  /\ \A i \in es_aliases'[WriteAlias] :
                       es_docs'[i][proc[p].author_document_id] = NoDoc]_vars

\* C8 witness: a delete() has returned; the row is gone and so is the
\* document behind the write alias.
C8_Witness ==
  \E p \in Procs :
    /\ proc[p].op = "delete" /\ proc[p].pc = "returned"
    /\ db[proc[p].author_document_id] = NoRow
    /\ Routable(WriteAlias)
    /\ es_docs[Route(WriteAlias)][proc[p].author_document_id] = NoDoc

\* C9: the step at which the delete request of a delete() fails raises
\* UnableToDeleteModelFromElasticSearch, leaves the row deleted and leaves
\* every document as it was.
C9_FailedDeleteKeepsRowDeleted ==
  [][\A p \in Procs :
       (proc[p].op = "delete" /\ proc[p].pc = "es_delete"
        /\ proc'[p].failed = "delete")
       => /\ proc'[p].pc = "raised"
          /\ proc'[p].exc = "UnableToDeleteModelFromElasticSearch"
          /\ db'[proc[p].author_document_id] = NoRow
          /\ es_docs' = es_docs]_vars

\* C9 witness: the delete request failed while the document was there; the
\* row is deleted and the document still indexed.
C9_Witness ==
  \E p \in Procs :
    /\ proc[p].op = "delete" /\ proc[p].failed = "delete" /\ proc[p].pc = "raised"
    /\ db[proc[p].author_document_id] = NoRow
    /\ HasDocument(WriteAlias, proc[p].author_document_id)

-----------------------------------------------------------------------------
(* Rebuild: failure *)

\* the aliases the last successful step of a rebuild left, by the line that
\* failed: as they were at the call up to line 191, the write alias on the
\* new index from then on
AliasesAtFailure(f) ==
  IF f.line \in {189, 191} THEN f.before
  ELSE [f.before EXCEPT ![WriteAlias] = {f.new_indicy}]

\* C10: a rebuild_es_index call of which a step failed has raised and the
\* aliases are those its last successful step left; when the failing step is
\* a bulk request, the error is UnableToBulkIndexModelsToElasticSearch, the
\* read alias is where it was at the call and the write alias is on the new
\* index, which exists.
C10_FailedRebuildStopsWhereItIs ==
  \A p \in Procs :
    (Rebuilding(p) /\ proc[p].failed # None)
    => /\ proc[p].pc = "raised"
       /\ es_aliases = AliasesAtFailure(proc[p])
       /\ proc[p].failed = "bulk"
            => /\ proc[p].exc = "UnableToBulkIndexModelsToElasticSearch"
               /\ es_aliases[ReadAlias] = proc[p].before[ReadAlias]
               /\ es_aliases[WriteAlias] = {proc[p].new_indicy}
               /\ proc[p].new_indicy \in es_indices

\* C10 witness: the second bulk request of a rebuild failed after the first
\* went through; the read alias is on the index of the rebuild before.
C10_Witness ==
  \E p \in Procs :
    /\ Rebuilding(p) /\ proc[p].failed = "bulk" /\ proc[p].pc = "raised"
    /\ proc[p].wrote # {}
    /\ proc[p].before[ReadAlias] # {}
    /\ es_aliases[ReadAlias] = proc[p].before[ReadAlias]
    /\ es_aliases[WriteAlias] = {proc[p].new_indicy}
    /\ proc[p].new_indicy \notin es_aliases[ReadAlias]

-----------------------------------------------------------------------------
(* Rebuild: what it leaves alone, and the order of its steps *)

\* C13: rebuild_es_index deletes no index: every index that exists before a
\* step of a rebuild, the index the aliases pointed to included, exists after
\* it, whether the call goes on to return or to raise.
C13_RebuildDeletesNoIndex ==
  [][es_indices \subseteq es_indices']_vars

\* a rebuild has returned, and the index its aliases pointed to when it was
\* called, no longer behind either alias, is still there
C13_Witness ==
  \E p \in Procs :
    /\ Rebuilding(p)
    /\ proc[p].pc = "returned"
    /\ proc[p].before[ReadAlias] # {}
    /\ proc[p].before[ReadAlias] = proc[p].before[WriteAlias]
    /\ \A a \in Aliases : proc[p].before[a] \cap es_aliases[a] = {}
    /\ proc[p].before[ReadAlias] \subseteq es_indices

\* C15: the steps of rebuild_es_index come in one order: the index is created
\* (line 189), then the write alias is bound to it (line 191), then the
\* batches are bulk-indexed (lines 195-196), then the read alias is bound to
\* the same index (line 198); the read alias is bound only once every batch
\* of the queryset has been indexed without error, with no batch left.
C15_RebuildStepsInOrder ==
  [][\A p \in Procs :
       (Rebuilding(p) /\ proc'[p] # proc[p] /\ proc'[p].op = "rebuild_es_index")
       => /\ proc'[p].line >= proc[p].line
          /\ es_indices' # es_indices
             => /\ proc[p].line = 189
                /\ es_indices' = es_indices \cup {proc'[p].new_indicy}
          /\ es_aliases'[WriteAlias] # es_aliases[WriteAlias]
             => /\ proc[p].line = 191
                /\ proc[p].new_indicy \in es_aliases'[WriteAlias]
          /\ es_docs' # es_docs => proc[p].line = 195
          /\ es_aliases'[ReadAlias] # es_aliases[ReadAlias]
             => /\ proc[p].line = 198
                /\ proc[p].new_indicy \in es_aliases'[ReadAlias]
                /\ proc[p].new_indicy \in es_indices
                /\ next_chunk(proc[p]) = {}
                /\ StreamedBy(p) = Evaluate(proc[p].streaming)]_vars

\* a rebuild of a table of two records has returned: two batches indexed,
\* both aliases on the index it created
C15_Witness ==
  \E p \in Procs :
    /\ Rebuilding(p)
    /\ proc[p].pc = "returned"
    /\ proc[p].line = 198
    /\ StreamedBy(p) = PK
    /\ \A a \in Aliases : es_aliases[a] = {proc[p].new_indicy}

\* C16: when rebuild_es_index returns, the read alias and the write alias
\* each resolve to exactly one index, the same one, the index this call
\* created; also when another rebuild_es_index call overlaps with it.
C16_RebuildLeavesBothAliasesOnItsIndex ==
  [][\A p \in Procs :
       (Rebuilding(p) /\ proc[p].pc # "returned" /\ proc'[p].pc = "returned")
       => /\ es_aliases'[ReadAlias] = {proc[p].new_indicy}
          /\ es_aliases'[WriteAlias] = {proc[p].new_indicy}]_vars

\* C17: a rebuild_es_index that is given a queryset bulk-indexes exactly the
\* records of that queryset, whatever the queryset, the empty one included;
\* only a rebuild that is given none indexes every record of the table.
C17_RebuildIndexesTheGivenSubset ==
  \A p \in Procs :
    Rebuilding(p)
    => LET given == IF proc[p].queryset.given
                    THEN Evaluate(proc[p].queryset.pks) ELSE Evaluate(PK)
       IN /\ StreamedBy(p) \subseteq given
          /\ proc[p].pc = "returned" => StreamedBy(p) = given

\* a call of reindex_into_es on a queryset is at its bulk request
AtBulk(p) == proc[p].op = "reindex_into_es" /\ proc[p].pc = "bulk"

-----------------------------------------------------------------------------
(* Rebuild and concurrent save() and delete() *)

\* the document the index behind the read alias should hold for record k
InSync(k) ==
  /\ Routable(ReadAlias)
  /\ es_docs[Route(ReadAlias)][k] =
       IF db[k] = NoRow THEN NoDoc ELSE Projection(db[k])

\* C18 as stated: one full-table rebuild_es_index and save() and delete()
\* calls, in any interleaving, have all completed without error; then the
\* index behind the read alias holds, for every record in the primary
\* store, the projection of its current values, and no document for a
\* record that is not in the store.
C18_RebuildAndWritesEndInSync ==
  (/\ Rebuilding(Rebuilder)
   /\ proc[Rebuilder].pc = "returned"
   /\ \A w \in Writers :
        \/ proc[w].pc = "idle"
        \/ proc[w].pc = "returned" /\ proc[w].op \in {"save", "delete"})
  => \A k \in PK : InSync(k)

\* C18 amended: when a full-table rebuild_es_index has returned, the index
\* behind the read alias is in sync with the primary store for every record
\* that no step of a save(), delete() or delete_from_es() call has touched
\* since the rebuild was called.
C18_UntouchedRecordsEndInSync ==
  \A p \in Procs :
    (Rebuilding(p) /\ proc[p].pc = "returned")
    => \A k \in PK \ proc[p].touched : InSync(k)

\* a rebuild has returned after a save() of record 1 ran during it; record
\* 2, which no call touched, was added to the table before the rebuild and
\* is in the index behind the read alias
C18_Witness ==
  \E p \in Procs :
    /\ Rebuilding(p)
    /\ proc[p].pc = "returned"
    /\ proc[p].touched = {1}
    /\ \E w \in Writers :
         /\ proc[w].op = "save" /\ proc[w].pc = "returned"
         /\ proc[w].self.pk = 1
         /\ \A v \in Writers \ {w} : proc[v].pc = "idle"
    /\ db[2] # NoRow
    /\ InSync(2)
    /\ ~InSync(1)

\* every concurrent caller has made one call, a save() of record k, and all
\* have returned
AllSaved(k) ==
  /\ calls = Cardinality(Writers)
  /\ \A w \in Writers : /\ proc[w].op = "save"
                        /\ proc[w].pc = "returned"
                        /\ proc[w].self.pk = k

\* C19 as stated: when concurrent save() calls on one record have all
\* returned, in any interleaving, the document under its key in the index
\* behind the write alias is the projection of the values the primary store
\* finally holds for it.
C19_ConcurrentSavesEndInSync ==
  \A k \in PK :
    AllSaved(k)
    => /\ Routable(WriteAlias)
       /\ es_docs[Route(WriteAlias)][k] = Projection(db[k])

\* C19 amended: when concurrent save() calls on one record have all
\* returned, the document under its key in the index behind the write alias
\* is the projection of the values of the one save() whose index request was
\* applied last, whichever save() wrote the primary store last.
C19_LastIndexedSaveWins ==
  /\ \A p \in Procs : \A w \in proc[p].last_write :
       /\ proc[p].op = "save"
       /\ w[2] = proc[p].self.pk
       /\ ~build_document_from_model(proc[p].self.row).raised
       /\ es_docs[w[1]][w[2]] = Projection(proc[p].self.row)
  /\ \A k \in PK :
       AllSaved(k)
       => /\ Routable(WriteAlias)
          /\ Cardinality({w \in Writers :
                <<Route(WriteAlias), k>> \in proc[w].last_write}) = 1

\* two save() calls with different values of record 1 have returned: the
\* primary store holds the values of one, the index those of the other,
\* whose index request came last
C19_Witness ==
  /\ AllSaved(1)
  /\ db[1] = proc["w1"].self.row
  /\ proc["w2"].self.row # proc["w1"].self.row
  /\ proc["w2"].last_write = {<<Route(WriteAlias), 1>>}
  /\ es_docs[Route(WriteAlias)][1] = Projection(proc["w2"].self.row)
  /\ es_docs[Route(WriteAlias)][1] # Projection(db[1])

-----------------------------------------------------------------------------
(* Names of several model classes *)

\* C20: two distinct model classes that set no index_name, two of one module
\* included, get different base names from get_index_base_name, hence
\* different read aliases and different write aliases, so that the calls on
\* one class (here Author, the class every caller works on) leave the
\* aliases of the others on no index.
C20_TypesHaveTheirOwnAliases ==
  \A c1 \in Classes : \A c2 \in Classes \ {c1} :
    (~c1.has_index_name /\ ~c2.has_index_name)
    => /\ get_index_base_name(c1) # get_index_base_name(c2)
       /\ get_read_alias_name(c1) # get_read_alias_name(c2)
       /\ get_write_alias_name(c1) # get_write_alias_name(c2)
       /\ c1 = Author =>
            \A a \in {get_read_alias_name(c2), get_write_alias_name(c2)} \cap Aliases :
              es_aliases[a] = {}

-----------------------------------------------------------------------------
(* save: errors of the document build *)

\* the nominated fields an instance lacks
absent_fields(row) ==
  {i \in 1..Len(es_cached_fields) : row[es_cached_fields[i]] = Missing}

\* C11: a save() of an instance that lacks a nominated field fails with the
\* configuration error NominatedFieldDoesNotExistForESIndexingException, not
\* with the synchronization error of save, and it fails at the build of the
\* document, before any request is sent to the cluster.
C11_MissingFieldIsConfigurationError ==
  \A p \in Procs :
    (/\ proc[p].op = "save"
     /\ absent_fields(proc[p].self.row) # {}
     /\ proc[p].pc \in {"raised", "returned"})
    => /\ proc[p].pc = "raised"
       /\ proc[p].failed = "build"
       /\ proc[p].exc = "NominatedFieldDoesNotExistForESIndexingException"

\* the nominated fields of an instance whose conversion to a string raises
uncastable_fields(row) ==
  {i \in 1..Len(es_cached_fields) :
     /\ row[es_cached_fields[i]] # Missing
     /\ convert_model_field_to_es_format(row[es_cached_fields[i]]).raised}

\* C12: a save() of an instance holding a nominated value whose string
\* conversion raises ends with UnableToCastESNominatedFieldException, no
\* document of the record is written or changed, and the record's save is
\* aborted: the primary store does not hold the instance's values.
C12_CastErrorAbortsSave ==
  \A p \in Procs :
    (/\ proc[p].op = "save"
     /\ absent_fields(proc[p].self.row) = {}
     /\ uncastable_fields(proc[p].self.row) # {}
     /\ proc[p].pc \in {"raised", "returned"})
    => /\ proc[p].pc = "raised"
       /\ proc[p].failed = "build"
       /\ proc[p].exc = "UnableToCastESNominatedFieldException"
       /\ db[proc[p].self.pk] # proc[p].self.row

====
